---- MODULE Spec2Model ----
(***************************************************************************)
(* A model of function_app.py: the blob trigger, the PdfOrchestrator       *)
(* durable orchestration (fan-out of four analyzers, fan-in, then          *)
(* generate_report and store_report), the six activities, the report       *)
(* table, and the reports HTTP endpoint.                                   *)
(*                                                                         *)
(* Python dicts are functions with a string domain; a key that is absent   *)
(* from a dict is absent from the DOMAIN.  Text is a sequence of           *)
(* whitespace-separated tokens.  A timestamp string is the number of the   *)
(* clock reading it was formatted from: the strings have one fixed format, *)
(* so their lexicographic order is the order of the numbers, and the empty *)
(* string, which sorts before every timestamp, is 0.                       *)
(***************************************************************************)
EXTENDS Integers, Sequences, FiniteSets, TLC

(* ------------------------------ bounds -------------------------------- *)

\* Orchestration instances the trigger may start.
MaxInstances == 2

\* Host interruptions that lose the result of an executing activity.
MaxCrashes == 1

Instances == 1 .. MaxInstances

(* ----------------------------- dict helpers --------------------------- *)

EmptyDict == [k \in {} |-> k]

\* d.get(k, default)
Get(d, k, default) == IF k \in DOMAIN d THEN d[k] ELSE default

\* `not d.get(k)` for a string-valued key: absent (None) or the empty string.
NotStr(d, k) == k \notin DOMAIN d \/ d[k] = ""

\* Python's None (JSON null) as the value of a dict-valued key.
None == [none |-> TRUE]

\* `not d.get(k)` for a dict-valued key: absent, None or the empty dict.
NotDict(d, k) == k \notin DOMAIN d \/ d[k] = None \/ DOMAIN d[k] = {}

\* `not d.get(k)` for a timestamp string: absent (None) or the empty string.
NotStamp(d, k) == k \notin DOMAIN d \/ d[k] = 0

\* A merge that keeps what is stored: only keys not yet present are written.
Merge_OldWins(old, new) ==
    [k \in DOMAIN old \cup DOMAIN new |-> IF k \in DOMAIN old THEN old[k] ELSE new[k]]

\* Python's {**old, **new}: keys of new overwrite, other keys of old stay.
Merge(old, new) ==
    [k \in DOMAIN old \cup DOMAIN new |-> IF k \in DOMAIN new THEN new[k] ELSE old[k]]

RECURSIVE SumSeq(_)
SumSeq(s) == IF s = <<>> THEN 0 ELSE Head(s) + SumSeq(Tail(s))

\* sep.join(parts), parts and result being token sequences.
RECURSIVE Join(_, _)
Join(sep, parts) ==
    IF parts = <<>> THEN <<>>
    ELSE IF Len(parts) = 1 THEN Head(parts)
    ELSE Head(parts) \o <<sep>> \o Join(sep, Tail(parts))

(* --------------------------- the blob storage -------------------------- *)

\* The documents of container "pdfs".  A name outside the domain has no blob;
\* "bad.pdf" parses, but reading its document information raises.
GoodPdf ==
    [ badInfo  |-> FALSE,
      pages    |-> << <<"Contact", "a@b.com", "https://x.io">>, <<>>, <<"Call", "555-123-4567">> >>,
      metadata |-> [Title |-> "Test", Author |-> "Ann"] ]

BadPdf == [GoodPdf EXCEPT !.badInfo = TRUE]

BlobStorage ==
    [n \in {"a.pdf", "b.pdf", "c.pdf", "bad.pdf"} |-> IF n = "bad.pdf" THEN BadPdf ELSE GoodPdf]

Ok(v) == [ok |-> TRUE, value |-> v]
\* A raised exception; it carries no value.
Raise(e) == [ok |-> FALSE, error |-> e, value |-> EmptyDict]

\* A reader that takes a missing blob for an empty document.
ReadPdf_Lenient(container, blob_name) ==
    IF container # "pdfs" \/ blob_name \notin DOMAIN BlobStorage
    THEN Ok([badInfo |-> FALSE, pages |-> <<>>, metadata |-> EmptyDict])
    ELSE Ok(BlobStorage[blob_name])

\* _download_pdf_bytes followed by PdfReader(...): the parsed document, or the
\* exception that escapes (nothing in the analyzers catches it).
ReadPdf(container, blob_name) ==
    IF container # "pdfs" \/ blob_name \notin DOMAIN BlobStorage
    THEN Raise("ResourceNotFoundError")
    ELSE Ok(BlobStorage[blob_name])

\* _safe_str(md.get(key))
SafeStr(md, key) == Get(md, key, "")

\* len(re.findall(r"\b\w+\b", token)): the runs of word characters of a token.
WordsIn(token) ==
    CASE token \in {"a@b.com", "c@d.org", "https://x.io", "www.y.com"} -> 3
      [] token \in {"555-123-4567", "2024-01-01", "1/2/24"} -> 3
      [] token = "\n" -> 0
      [] OTHER -> 1

\* Tokens matched by email_re, phone_re, url_re, date_re.
IsEmail(token) == token \in {"a@b.com", "c@d.org"}
IsPhone(token) == token \in {"555-123-4567"}
IsUrl(token)   == token \in {"https://x.io", "www.y.com"}
IsDate(token)  == token \in {"2024-01-01", "1/2/24"}

Categories == {"emails", "phones", "urls", "dates"}

IsMatch(category, token) ==
    CASE category = "emails" -> IsEmail(token)
      [] category = "phones" -> IsPhone(token)
      [] category = "urls"   -> IsUrl(token)
      [] category = "dates"  -> IsDate(token)

\* Lexicographic rank of the tokens the patterns can match.
Rank(token) ==
    CASE token = "1/2/24"       -> 1
      [] token = "2024-01-01"   -> 2
      [] token = "555-123-4567" -> 3
      [] token = "a@b.com"      -> 4
      [] token = "c@d.org"      -> 5
      [] token = "https://x.io" -> 6
      [] token = "www.y.com"    -> 7
      [] OTHER                  -> 8

\* sorted(set(matches))
RECURSIVE SortedSet(_)
SortedSet(S) ==
    IF S = {} THEN <<>>
    ELSE LET m == CHOOSE x \in S : \A y \in S : Rank(x) <= Rank(y)
         IN <<m>> \o SortedSet(S \ {m})

\* pattern.findall(text): the matches in the order they occur, repeats included.
FindAll(category, text) == SelectSeq(text, LAMBDA token : IsMatch(category, token))

\* The matches as they occur in the text, neither sorted nor deduplicated.
Matches_AsFound(category, text) == FindAll(category, text)

\* sorted(set(pattern.findall(text)))
Matches(category, text) ==
    SortedSet({FindAll(category, text)[i] : i \in 1 .. Len(FindAll(category, text))})

\* The four lists detect_sensitive_data returns for a text.
SensitiveIn(text) == [category \in Categories |-> Matches(category, text)]

(* ------------------------------ analyzers ------------------------------ *)

CallContainer(payload) == IF NotStr(payload, "container") THEN "pdfs" ELSE payload.container

extract_text(payload) ==
    IF NotStr(payload, "blob_name")
    THEN Ok([pages |-> <<>>, full_text |-> <<>>])
    ELSE LET r == ReadPdf(CallContainer(payload), payload.blob_name) IN
         IF ~r.ok THEN r
         ELSE LET pp == r.value.pages
                  pages == [i \in 1 .. Len(pp) |-> [page |-> i, text |-> pp[i]]]
                  full_text_parts == SelectSeq(pp, LAMBDA t : t # <<>>)
              IN Ok([pages |-> pages, full_text |-> Join("\n", full_text_parts)])

extract_metadata(payload) ==
    IF NotStr(payload, "blob_name")
    THEN Ok(EmptyDict)
    ELSE LET r == ReadPdf(CallContainer(payload), payload.blob_name) IN
         IF ~r.ok THEN r
         ELSE IF r.value.badInfo THEN Raise("PdfReadError")
         ELSE LET md == r.value.metadata IN
              Ok([ title         |-> SafeStr(md, "Title"),
                   author        |-> SafeStr(md, "Author"),
                   subject       |-> SafeStr(md, "Subject"),
                   creator       |-> SafeStr(md, "Creator"),
                   producer      |-> SafeStr(md, "Producer"),
                   creation_date |-> SafeStr(md, "CreationDate"),
                   mod_date      |-> SafeStr(md, "ModDate") ])

\* A float quotient a / b is kept as the pair <<a, b>>; 0.0 is <<0, 1>>.
analyze_statistics(payload) ==
    IF NotStr(payload, "blob_name")
    THEN Ok([ page_count |-> 0, word_count |-> 0, avg_words_per_page |-> <<0, 1>>,
              estimated_reading_time_minutes |-> <<0, 1>> ])
    ELSE LET r == ReadPdf(CallContainer(payload), payload.blob_name) IN
         IF ~r.ok THEN r
         ELSE LET pp == r.value.pages
                  page_count == Len(pp)
                  full_text == Join("\n", pp)
                  word_count == SumSeq([i \in 1 .. Len(full_text) |-> WordsIn(full_text[i])])
              IN Ok([ page_count |-> page_count,
                      word_count |-> word_count,
                      avg_words_per_page |->
                          IF page_count # 0 THEN <<word_count, page_count>> ELSE <<0, 1>>,
                      estimated_reading_time_minutes |-> <<word_count, 200>> ])

detect_sensitive_data(payload) ==
    IF NotStr(payload, "blob_name")
    THEN Ok([emails |-> <<>>, phones |-> <<>>, urls |-> <<>>, dates |-> <<>>])
    ELSE LET r == ReadPdf(CallContainer(payload), payload.blob_name) IN
         IF ~r.ok THEN r
         ELSE LET text == Join("\n", r.value.pages) IN Ok(SensitiveIn(text))

(* ------------------------ generate_report, JSON ------------------------ *)

Analyzers == {"extract_text", "extract_metadata", "analyze_statistics", "detect_sensitive_data"}
Activities == Analyzers \cup {"generate_report", "store_report"}

\* `d.get(k) or default` for a dict-valued key.
OrDict(d, k, default) == IF NotDict(d, k) THEN default ELSE d[k]

generate_report(payload, now) ==
    [ container             |-> Get(payload, "container", "pdfs"),
      blob_name             |-> Get(payload, "blob_name", ""),
      generated_at_utc      |-> now,
      extract_text          |-> OrDict(payload, "extract_text", [pages |-> <<>>, full_text |-> <<>>]),
      extract_metadata      |-> OrDict(payload, "extract_metadata", EmptyDict),
      analyze_statistics    |-> OrDict(payload, "analyze_statistics", EmptyDict),
      detect_sensitive_data |-> OrDict(payload, "detect_sensitive_data",
                                       [emails |-> <<>>, phones |-> <<>>, urls |-> <<>>, dates |-> <<>>]) ]

\* The order in which json.dumps writes the keys of a report and of its parts
\* (a dict keeps the order in which its keys were inserted).
KeyOrder ==
    << "container", "blob_name", "generated_at_utc", "extract_text", "extract_metadata",
       "analyze_statistics", "detect_sensitive_data",
       "pages", "full_text",
       "title", "author", "subject", "creator", "producer", "creation_date", "mod_date",
       "page_count", "word_count", "avg_words_per_page", "estimated_reading_time_minutes",
       "emails", "phones", "urls", "dates" >>

\* A JSON object: its member names in the order written, and each member's value.
JsonObject(d, enc(_, _)) ==
    [ keys |-> SelectSeq(KeyOrder, LAMBDA k : k \in DOMAIN d),
      vals |-> [k \in DOMAIN d |-> enc(k, d[k])] ]

\* json.dumps(payload, ensure_ascii=False): the report object, its four parts
\* being objects in turn; strings, numbers and arrays are written as they are.
JsonDumps(payload) ==
    JsonObject(payload,
        LAMBDA k, v : IF k \in Analyzers THEN JsonObject(v, LAMBDA k2, v2 : v2) ELSE v)

\* json.loads of a JSON object: a dict of the members named in keys.
JsonDict(j, dec(_, _)) ==
    [k \in {j.keys[i] : i \in 1 .. Len(j.keys)} |-> dec(k, j.vals[k])]

JsonLoads(body) ==
    JsonDict(body,
        LAMBDA k, v : IF k \in Analyzers THEN JsonDict(v, LAMBDA k2, v2 : v2) ELSE v)

(* ------------------------------ the table ------------------------------ *)

EntitiesAt(tbl, pk, rk) == {e \in tbl : e.PartitionKey = pk /\ e.RowKey = rk}

\* A write that replaces the table's content by the one entity.
UpsertMerge_Truncating(tbl, entity) == {entity}

\* An insert in place of the upsert: a second entity appears under the key.
UpsertMerge_InsertOnly(tbl, entity) == tbl \cup {entity}

\* table.upsert_entity(mode="merge", entity=entity): the entity under the key
\* becomes the stored one with the written properties laid over it.
UpsertMerge(tbl, entity) ==
    LET old == EntitiesAt(tbl, entity.PartitionKey, entity.RowKey) IN
    (tbl \ old) \cup {IF old = {} THEN entity ELSE Merge(CHOOSE e \in old : TRUE, entity)}

\* An entity stamped with the time of the store, not with the report's.
StoreEntity_Restamped(payload, now) ==
    [ PartitionKey     |-> Get(payload, "container", "pdfs"),
      RowKey           |-> payload.blob_name,
      generated_at_utc |-> now,
      report           |-> JsonDumps(payload) ]

\* An entity that keeps a summary of the report in place of the report.
StoreEntity_Summary(payload, now) ==
    [ PartitionKey     |-> Get(payload, "container", "pdfs"),
      RowKey           |-> payload.blob_name,
      generated_at_utc |-> IF NotStamp(payload, "generated_at_utc") THEN now
                           ELSE payload.generated_at_utc,
      report           |-> JsonDumps([ container |-> Get(payload, "container", "pdfs"),
                                       blob_name |-> payload.blob_name ]) ]

\* The entity store_report builds from its payload.
StoreEntity(payload, now) ==
    [ PartitionKey     |-> Get(payload, "container", "pdfs"),
      RowKey           |-> payload.blob_name,
      generated_at_utc |-> IF NotStamp(payload, "generated_at_utc") THEN now
                           ELSE payload.generated_at_utc,
      report           |-> JsonDumps(payload) ]

\* A store that does not look at blob_name first.
store_report_NoCheck(payload, now, up, tbl) ==
    IF ~up
    THEN [ result |-> Raise("HttpResponseError"), table |-> tbl,
           readClock |-> NotStamp(payload, "generated_at_utc") ]
    ELSE [ result |-> Ok([ partition_key |-> Get(payload, "container", "pdfs"),
                           row_key       |-> Get(payload, "blob_name", ""),
                           table         |-> "PdfReports" ]),
           table  |-> UpsertMerge(tbl,
                        [ PartitionKey     |-> Get(payload, "container", "pdfs"),
                          RowKey           |-> Get(payload, "blob_name", ""),
                          generated_at_utc |-> IF NotStamp(payload, "generated_at_utc") THEN now
                                               ELSE payload.generated_at_utc,
                          report           |-> JsonDumps(payload) ]),
           readClock |-> NotStamp(payload, "generated_at_utc") ]

\* store_report(payload), the table service answering (up) or not: the
\* activity's result and the table it leaves.
store_report(payload, now, up, tbl) ==
    IF NotStr(payload, "blob_name")
    THEN [result |-> Raise("ValueError"), table |-> tbl, readClock |-> FALSE]
    ELSE IF ~up
    THEN [ result |-> Raise("HttpResponseError"), table |-> tbl,
           readClock |-> NotStamp(payload, "generated_at_utc") ]
    ELSE [ result |-> Ok([ partition_key |-> Get(payload, "container", "pdfs"),
                           row_key       |-> payload.blob_name,
                           table         |-> "PdfReports" ]),
           table  |-> UpsertMerge(tbl, StoreEntity(payload, now)),
           readClock |-> NotStamp(payload, "generated_at_utc") ]

(* ------------------------------ the state ------------------------------ *)

VARIABLES
    input,          \* per instance: the orchestration input, EmptyDict before start
    runtimeStatus,  \* per instance: "NotStarted", "Running", "Completed", "Failed"
    output,         \* per instance: what the orchestrator returned or raised
    history,        \* per instance and activity: the durable record of the task
    rerun,          \* whether an activity body ran after its result was recorded
    table,          \* the entities of the report table
    clock,          \* readings of datetime.now so far
    crashes,        \* host interruptions so far
    recorded,       \* the <<instance, activity>> whose result was ever recorded
    response,       \* the last response of the reports endpoint
    call,           \* an activity function called on its own: its argument and result
    order           \* per instance: the analyzers in the order they finished, where logged

vars ==
    << input, runtimeStatus, output, history, rerun, table, clock, crashes, recorded, response,
       call, order >>

\* calls: how often the orchestrator has called the activity.
NoTask == [state |-> "none", calls |-> 0, arg |-> EmptyDict, result |-> Raise("")]

NoResponse ==
    [ request |-> [container |-> "", blob_name |-> "", top |-> {}, up |-> TRUE],
      reply   |-> [status_code |-> 0, kind |-> "none", body |-> EmptyDict, items |-> <<>>] ]

NoCall == [fn |-> "none", arg |-> EmptyDict, result |-> EmptyDict]

\* Nothing started, nothing stored, nothing asked.
Fresh ==
    /\ input = [i \in Instances |-> EmptyDict]
    /\ runtimeStatus = [i \in Instances |-> "NotStarted"]
    /\ output = [i \in Instances |-> EmptyDict]
    /\ history = [i \in Instances |-> [a \in Activities |-> NoTask]]
    /\ rerun = FALSE
    /\ table = {}
    /\ clock = 0
    /\ crashes = 0
    /\ recorded = {}
    /\ response = NoResponse
    /\ order = [i \in Instances |-> <<>>]

Init == Fresh /\ call = NoCall

(* ------------------------------ the trigger ---------------------------- *)

\* myblob.name as its "/"-separated segments; <<>> is a missing name.
BlobPaths ==
    { <<"pdfs", "a.pdf">>, <<"pdfs", "bad.pdf">>, <<"pdfs", "gone.pdf">>, <<"pdfs", "">>, <<>> }

\* blob_path.split("/", 1)[1] if "/" in blob_path else blob_path
TriggerBlobName(blob_path) ==
    IF Len(blob_path) >= 2 THEN blob_path[2]
    ELSE IF Len(blob_path) = 1 THEN blob_path[1] ELSE ""

\* Lexicographic rank of the blob names in use (the order of the row keys).
NameRank(n) ==
    CASE n = ""         -> 0
      [] n = "a.pdf"    -> 1
      [] n = "b.pdf"    -> 2
      [] n = "bad.pdf"  -> 3
      [] n = "c.pdf"    -> 4
      [] n = "gone.pdf" -> 5

\* Instance ids are fresh and interchangeable.  The model numbers the
\* instances by blob name, and by start order among equal names, so that
\* runs that differ only in the numbering are explored once.
FreeSlot(i, blob_name) ==
    /\ runtimeStatus[i] = "NotStarted"
    /\ \A j \in Instances : runtimeStatus[j] # "NotStarted" =>
          IF j < i THEN NameRank(input[j].blob_name) <= NameRank(blob_name)
                   ELSE NameRank(blob_name) < NameRank(input[j].blob_name)

\* client.start_new("PdfOrchestrator", None, {...}): a new instance each time.
PdfBlobTrigger(i, blob_path) ==
    /\ FreeSlot(i, TriggerBlobName(blob_path))
    /\ input' = [input EXCEPT ![i] =
                    [container |-> "pdfs", blob_name |-> TriggerBlobName(blob_path)]]
    /\ runtimeStatus' = [runtimeStatus EXCEPT ![i] = "Running"]
    /\ UNCHANGED <<output, history, rerun, table, clock, crashes, recorded, response, call, order>>

(* ---------------------------- the orchestrator ------------------------- *)
(* The durable runtime replays the generator against the instance's        *)
(* history each time a task completes: where the orchestrator stands is a  *)
(* function of that history, and each action below is one replay up to the *)
(* next yield or return.                                                   *)

State(i, a) == history[i][a].state

OrchContainer(i) == IF NotStr(input[i], "container") THEN "pdfs" ELSE input[i].container

Base(i) == [container |-> OrchContainer(i), blob_name |-> input[i].blob_name]

Schedule(h, a, arg) ==
    [h EXCEPT ![a] = [state |-> "scheduled", calls |-> @.calls + 1, arg |-> arg, result |-> Raise("")]]

\* if not blob_name: return {"error": ...}
OrchMissingBlobName(i) ==
    /\ runtimeStatus[i] = "Running"
    /\ NotStr(input[i], "blob_name")
    /\ runtimeStatus' = [runtimeStatus EXCEPT ![i] = "Completed"]
    /\ output' = [output EXCEPT ![i] = [error |-> "Missing blob_name in orchestrator input."]]
    /\ UNCHANGED <<input, history, rerun, table, clock, crashes, recorded, response, call, order>>

\* A fan-out that does not look at blob_name first.
OrchFanOut_NoCheck(i) ==
    /\ runtimeStatus[i] = "Running"
    /\ \A a \in Analyzers : State(i, a) = "none"
    /\ history' = [history EXCEPT ![i] =
          Schedule(Schedule(Schedule(Schedule(@, "extract_text", Base(i)),
                                              "extract_metadata", Base(i)),
                                     "analyze_statistics", Base(i)),
                            "detect_sensitive_data", Base(i))]
    /\ UNCHANGED <<input, runtimeStatus, output, rerun, table, clock, crashes, recorded, response, call, order>>

\* tasks = [call_activity(...) x 4]; yield context.task_all(tasks)
OrchFanOut(i) ==
    /\ runtimeStatus[i] = "Running"
    /\ ~NotStr(input[i], "blob_name")
    /\ \A a \in Analyzers : State(i, a) = "none"
    /\ history' = [history EXCEPT ![i] =
          Schedule(Schedule(Schedule(Schedule(@, "extract_text", Base(i)),
                                              "extract_metadata", Base(i)),
                                     "analyze_statistics", Base(i)),
                            "detect_sensitive_data", Base(i))]
    /\ UNCHANGED <<input, runtimeStatus, output, rerun, table, clock, crashes, recorded, response, call, order>>

\* A join that resumes once every analyzer has finished, failed or not.
TaskAllDone_IgnoresFailure(i) == \A a \in Analyzers : State(i, a) \in {"completed", "failed"}

\* A join that resumes on the first result (task_any in place of task_all).
TaskAllDone_FirstResult(i) ==
    /\ \E a \in Analyzers : State(i, a) = "completed"
    /\ \A a \in Analyzers : State(i, a) # "failed"

\* Whether task_all(tasks) has a value for the orchestrator to resume with.
TaskAllDone(i) == \A a \in Analyzers : State(i, a) = "completed"

\* The tasks list, in the order the orchestrator builds it.
Tasks == <<"extract_text", "extract_metadata", "analyze_statistics", "detect_sensitive_data">>

\* Results handed over in the order the tasks finished.
TaskAllResults_AsCompleted(i) == [k \in 1 .. Len(Tasks) |-> history[i][order[i][k]].result.value]

\* The value of task_all(tasks): the results in the order of the tasks list.
TaskAllResults(i) == [k \in 1 .. Len(Tasks) |-> history[i][Tasks[k]].result.value]

\* text_result, ... = yield task_all(tasks); yield call_activity("generate_report", {...})
OrchJoin(i) ==
    /\ runtimeStatus[i] = "Running"
    /\ TaskAllDone(i)
    /\ State(i, "generate_report") = "none"
    /\ history' = [history EXCEPT ![i] = Schedule(@, "generate_report",
            [ container             |-> OrchContainer(i),
              blob_name             |-> input[i].blob_name,
              extract_text          |-> TaskAllResults(i)[1],
              extract_metadata      |-> TaskAllResults(i)[2],
              analyze_statistics    |-> TaskAllResults(i)[3],
              detect_sensitive_data |-> TaskAllResults(i)[4] ])]
    /\ UNCHANGED <<input, runtimeStatus, output, rerun, table, clock, crashes, recorded, response, call, order>>

\* report = yield ...; yield context.call_activity("store_report", report)
OrchChain(i) ==
    /\ runtimeStatus[i] = "Running"
    /\ State(i, "generate_report") = "completed"
    /\ State(i, "store_report") = "none"
    /\ history' = [history EXCEPT ![i] =
                      Schedule(@, "store_report", history[i]["generate_report"].result.value)]
    /\ UNCHANGED <<input, runtimeStatus, output, rerun, table, clock, crashes, recorded, response, call, order>>

\* A return that does not wait for store_report to answer.
OrchReturn_BeforeAck(i) ==
    /\ runtimeStatus[i] = "Running"
    /\ State(i, "store_report") \in {"scheduled", "completed"}
    /\ runtimeStatus' = [runtimeStatus EXCEPT ![i] = "Completed"]
    /\ output' = [output EXCEPT ![i] = history[i]["generate_report"].result.value]
    /\ UNCHANGED <<input, history, rerun, table, clock, crashes, recorded, response, call, order>>

\* A return that does not care whether store_report raised.
OrchReturn_IgnoresFailure(i) ==
    /\ runtimeStatus[i] = "Running"
    /\ State(i, "store_report") \in {"completed", "failed"}
    /\ runtimeStatus' = [runtimeStatus EXCEPT ![i] = "Completed"]
    /\ output' = [output EXCEPT ![i] = history[i]["generate_report"].result.value]
    /\ UNCHANGED <<input, history, rerun, table, clock, crashes, recorded, response, call, order>>

\* yield call_activity("store_report", report) resumes; return report
OrchReturn(i) ==
    /\ runtimeStatus[i] = "Running"
    /\ State(i, "store_report") = "completed"
    /\ runtimeStatus' = [runtimeStatus EXCEPT ![i] = "Completed"]
    /\ output' = [output EXCEPT ![i] = history[i]["generate_report"].result.value]
    /\ UNCHANGED <<input, history, rerun, table, clock, crashes, recorded, response, call, order>>

\* Only a failed analyzer fails the run: a failed chain step is never raised.
OrchRaise_AnalyzersOnly(i) ==
    /\ runtimeStatus[i] = "Running"
    /\ \E a \in Analyzers :
          /\ State(i, a) = "failed"
          /\ output' = [output EXCEPT ![i] = [exception |-> history[i][a].result.error]]
    /\ runtimeStatus' = [runtimeStatus EXCEPT ![i] = "Failed"]
    /\ UNCHANGED <<input, history, rerun, table, clock, crashes, recorded, response, call, order>>

\* A yielded task failed: the exception is thrown into the generator, which
\* catches nothing, and the orchestration fails.  task_all fails as soon as
\* one of its tasks has failed.
OrchRaise(i) ==
    /\ runtimeStatus[i] = "Running"
    /\ \E a \in Activities :
          /\ State(i, a) = "failed"
          /\ output' = [output EXCEPT ![i] = [exception |-> history[i][a].result.error]]
    /\ runtimeStatus' = [runtimeStatus EXCEPT ![i] = "Failed"]
    /\ UNCHANGED <<input, history, rerun, table, clock, crashes, recorded, response, call, order>>

(* ----------------------------- the activities -------------------------- *)

AnalyzerResult(a, payload) ==
    CASE a = "extract_text"          -> extract_text(payload)
      [] a = "extract_metadata"      -> extract_metadata(payload)
      [] a = "analyze_statistics"    -> analyze_statistics(payload)
      [] a = "detect_sensitive_data" -> detect_sensitive_data(payload)

\* The runtime records the activity's return value or exception.
Record(h, a, r) ==
    [h EXCEPT ![a] = [@ EXCEPT !.state = IF r.ok THEN "completed" ELSE "failed", !.result = r]]

\* The body of activity a runs for instance i.
Ran(i, a) == rerun \/ <<i, a>> \in recorded

AnalyzerRuns(i, a) ==
    /\ a \in Analyzers
    /\ State(i, a) = "scheduled"
    /\ history' = [history EXCEPT ![i] = Record(@, a, AnalyzerResult(a, history[i][a].arg))]
    /\ rerun' = Ran(i, a)
    /\ recorded' = recorded \cup {<<i, a>>}
    /\ UNCHANGED <<input, runtimeStatus, output, table, clock, crashes, response, call>>

RunAnalyzer(i, a) == AnalyzerRuns(i, a) /\ UNCHANGED order

\* The same, the order in which the analyzers finish being logged.
RunAnalyzerLogged(i, a) == AnalyzerRuns(i, a) /\ order' = [order EXCEPT ![i] = Append(@, a)]

RunGenerateReport(i) ==
    /\ State(i, "generate_report") = "scheduled"
    /\ clock' = clock + 1
    /\ history' = [history EXCEPT ![i] =
          Record(@, "generate_report",
                 Ok(generate_report(history[i]["generate_report"].arg, clock')))]
    /\ rerun' = Ran(i, "generate_report")
    /\ recorded' = recorded \cup {<<i, "generate_report">>}
    /\ UNCHANGED <<input, runtimeStatus, output, table, crashes, response, call, order>>

RunStoreReport(i, up) ==
    /\ State(i, "store_report") = "scheduled"
    /\ LET r == store_report(history[i]["store_report"].arg, clock + 1, up, table) IN
          /\ table' = r.table
          /\ clock' = IF r.readClock THEN clock + 1 ELSE clock
          /\ history' = [history EXCEPT ![i] = Record(@, "store_report", r.result)]
    /\ rerun' = Ran(i, "store_report")
    /\ recorded' = recorded \cup {<<i, "store_report">>}
    /\ UNCHANGED <<input, runtimeStatus, output, crashes, response, call, order>>

\* A resume that restarts the run from scratch: the instance's history is
\* dropped with the interrupted activity's result.
Interrupted_FromScratch(i, a, up) ==
    /\ crashes < MaxCrashes
    /\ State(i, a) = "scheduled"
    /\ up
    /\ crashes' = crashes + 1
    /\ rerun' = Ran(i, a)
    /\ history' = [history EXCEPT ![i] = [b \in Activities |-> NoTask]]
    /\ UNCHANGED <<input, runtimeStatus, output, table, clock, recorded, response, call, order>>

\* The host stops while an activity runs or before its result is recorded:
\* what the activity did stays done, its task is still scheduled, and the
\* runtime delivers the work item again.
Interrupted(i, a, up) ==
    /\ crashes < MaxCrashes
    /\ State(i, a) = "scheduled"
    /\ up \/ a = "store_report"
    /\ crashes' = crashes + 1
    /\ rerun' = Ran(i, a)
    /\ IF a = "store_report"
       THEN LET r == store_report(history[i][a].arg, clock + 1, up, table) IN
               /\ table' = r.table
               /\ clock' = IF r.readClock THEN clock + 1 ELSE clock
       ELSE /\ table' = table
            /\ clock' = IF a = "generate_report" THEN clock + 1 ELSE clock
    /\ UNCHANGED <<input, runtimeStatus, output, history, recorded, response, call, order>>

(* -------------------------- the reports endpoint ----------------------- *)

DefaultTop == 50
MaxTop == 200

\* The top query parameters tried: none, one that int() rejects, and numbers.
NoTop == [given |-> FALSE, numeric |-> FALSE, value |-> 0]

TopParams ==
    { NoTop, [given |-> TRUE, numeric |-> FALSE, value |-> 0] }
    \cup { [given |-> TRUE, numeric |-> TRUE, value |-> v] : v \in {0, 2, 500} }

Min(a, b) == IF a <= b THEN a ELSE b
Max(a, b) == IF a >= b THEN a ELSE b

\* top = int(req.params.get("top", "50")), 50 on ValueError; max(1, min(top, 200))
ParseTop(param) ==
    LET top == IF ~param.given THEN DefaultTop
               ELSE IF ~param.numeric THEN DefaultTop ELSE param.value
    IN Max(1, Min(top, MaxTop))

\* The entities a query for PartitionKey eq container yields, in the order
\* the table service returns them: by RowKey.
RECURSIVE ByRowKey(_)
ByRowKey(S) ==
    IF S = {} THEN <<>>
    ELSE LET e == CHOOSE x \in S : \A y \in S : NameRank(x.RowKey) <= NameRank(y.RowKey)
         IN <<e>> \o ByRowKey(S \ {e})

QueryEntities(tbl, container) == ByRowKey({e \in tbl : e.PartitionKey = container})

Item(e) ==
    [ container        |-> e.PartitionKey,
      blob_name        |-> e.RowKey,
      generated_at_utc |-> Get(e, "generated_at_utc", 0) ]

\* for e in entities: items.append(...); if len(items) >= top: break
Collect(entities, top) ==
    [k \in 1 .. Min(Len(entities), top) |-> Item(entities[k])]

\* items.sort(key=generated_at_utc or "", reverse=True): a stable sort, so items
\* with equal keys keep their order.
RECURSIVE InsertDesc(_, _)
InsertDesc(x, sorted) ==
    IF sorted = <<>> THEN <<x>>
    ELSE IF Head(sorted).generated_at_utc >= x.generated_at_utc
    THEN <<Head(sorted)>> \o InsertDesc(x, Tail(sorted))
    ELSE <<x>> \o sorted

RECURSIVE SortDesc(_)
SortDesc(items) ==
    IF items = <<>> THEN <<>>
    ELSE InsertDesc(items[Len(items)], SortDesc(SubSeq(items, 1, Len(items) - 1)))

HttpResponse(status_code, kind, body, items) ==
    [status_code |-> status_code, kind |-> kind, body |-> body, items |-> items]

\* reports(req): container and blob_name are the route parameters ("" when the
\* route has none), top the query parameter, up whether the table answers.
reports(tbl, container, blob_name, top, up) ==
    IF container = ""
    THEN HttpResponse(400, "error", [error |-> "Missing container in route."], <<>>)
    ELSE IF blob_name # ""
    THEN IF up /\ EntitiesAt(tbl, container, blob_name) # {}
         THEN LET entity == CHOOSE e \in EntitiesAt(tbl, container, blob_name) : TRUE IN
              HttpResponse(200, "report", Get(entity, "report", JsonDumps(EmptyDict)), <<>>)
         ELSE HttpResponse(404, "error",
                           [ error   |-> "Report not found",
                             details |-> IF up THEN "ResourceNotFoundError"
                                         ELSE "HttpResponseError" ], <<>>)
    ELSE IF ~up
    THEN HttpResponse(500, "error",
                      [error |-> "Failed to query reports.", details |-> "HttpResponseError"],
                      <<>>)
    ELSE HttpResponse(200, "list", EmptyDict,
                      SortDesc(Collect(QueryEntities(tbl, container), ParseTop(top))))

\* The request of the last response, kept beside it.
Request(container, blob_name, top, up) ==
    [container |-> container, blob_name |-> blob_name, top |-> top, up |-> up]

HttpGetOne(container, blob_name, up) ==
    /\ blob_name # ""
    /\ response' = [ request |-> Request(container, blob_name, {}, up),
                     reply   |-> reports(table, container, blob_name, NoTop, up) ]
    /\ UNCHANGED <<input, runtimeStatus, output, history, rerun, table, clock, crashes, recorded, call, order>>

HttpList(container, top, up) ==
    /\ response' = [ request |-> Request(container, "", {top}, up),
                     reply   |-> reports(table, container, "", top, up) ]
    /\ UNCHANGED <<input, runtimeStatus, output, history, rerun, table, clock, crashes, recorded, call, order>>

(* --------------------------- the specifications ------------------------ *)

Orchestrate ==
    \/ \E i \in Instances : OrchMissingBlobName(i)
    \/ \E i \in Instances : OrchFanOut(i)
    \/ \E i \in Instances : OrchJoin(i)
    \/ \E i \in Instances : OrchChain(i)
    \/ \E i \in Instances : OrchReturn(i)
    \/ \E i \in Instances : OrchRaise(i)

Workflow ==
    \/ Orchestrate
    \/ \E i \in Instances, a \in Analyzers : RunAnalyzer(i, a)
    \/ \E i \in Instances : RunGenerateReport(i)
    \/ \E i \in Instances, up \in BOOLEAN : RunStoreReport(i, up)

\* Workflow runs started by the trigger, running concurrently.
Next ==
    \/ \E i \in Instances, p \in BlobPaths : PdfBlobTrigger(i, p)
    \/ Workflow

Spec == Init /\ [][Next]_vars

\* The same, the host being interrupted while activities run.
NextResume ==
    \/ Next
    \/ \E i \in Instances, a \in Activities, up \in BOOLEAN : Interrupted(i, a, up)

SpecResume == Init /\ [][NextResume]_vars

\* Blobs uploaded one after the other, each run ending before the next blob
\* arrives, and clients of the reports endpoint.
QueryBlobPaths == { <<"pdfs", "a.pdf">>, <<"pdfs", "b.pdf">>, <<"pdfs", "c.pdf">>, <<"pdfs", "">> }

Idle == \A j \in Instances : runtimeStatus[j] # "Running"

NextQuery ==
    \/ \E i \in Instances, p \in QueryBlobPaths : Idle /\ PdfBlobTrigger(i, p)
    \/ Workflow
    \/ \E n \in {"a.pdf", "b.pdf", "c.pdf"}, up \in BOOLEAN : HttpGetOne("pdfs", n, up)
    \/ \E top \in TopParams : HttpList("pdfs", top, TRUE)
    \/ \E c \in {"pdfs", ""} : HttpList(c, NoTop, c = "")

SpecQuery == Init /\ [][NextQuery]_vars

\* One run, the order in which its analyzers finish being logged.
NextJoin ==
    \/ \E p \in BlobPaths : PdfBlobTrigger(1, p)
    \/ Orchestrate
    \/ \E i \in Instances, a \in Analyzers : RunAnalyzerLogged(i, a)
    \/ \E i \in Instances : RunGenerateReport(i)
    \/ \E i \in Instances, up \in BOOLEAN : RunStoreReport(i, up)

SpecJoin == Init /\ [][NextJoin]_vars

\* The steps of the run: the runtime dispatches every scheduled activity and
\* resumes the orchestrator whenever a task it waits for has a result.
RunStep ==
    \/ Orchestrate
    \/ \E i \in Instances, a \in Analyzers : RunAnalyzerLogged(i, a)
    \/ \E i \in Instances : RunGenerateReport(i)
    \/ \E i \in Instances, up \in BOOLEAN : RunStoreReport(i, up)

\* The run under fair scheduling: while it can step, it does not wait forever.
SpecLive == Init /\ [][NextJoin]_vars /\ WF_vars(RunStep)

\* detect_sensitive_data at work on a text: every text of at most MaxLen
\* tokens, matches of each pattern and other words, in every order.
MaxLen == 3

TextTokens ==
    { "a@b.com", "c@d.org", "555-123-4567", "https://x.io", "www.y.com",
      "2024-01-01", "1/2/24", "Call" }

Texts == UNION {[1 .. n -> TextTokens] : n \in 0 .. MaxLen}

Untouched ==
    UNCHANGED <<input, runtimeStatus, output, history, rerun, table, clock, crashes, recorded,
                response, order>>

DetectText ==
    /\ call.fn = "text"
    /\ call' = [fn |-> "detect_sensitive_data", arg |-> call.arg, result |-> SensitiveIn(call.arg)]
    /\ Untouched

InitDetect == Fresh /\ \E text \in Texts : call = [fn |-> "text", arg |-> text, result |-> EmptyDict]

SpecDetect == InitDetect /\ [][DetectText]_vars

\* generate_report at work on a payload: each component result missing,
\* null or the analyzer's result for a.pdf, with and without the identity.
Produced(a) == AnalyzerResult(a, [container |-> "pdfs", blob_name |-> "a.pdf"]).value

Payloads ==
    { [k \in present \cup identity |->
          IF k = "container" THEN "pdfs"
          ELSE IF k = "blob_name" THEN "a.pdf"
          ELSE IF k \in nulls THEN None ELSE Produced(k)] :
      present \in SUBSET Analyzers, nulls \in SUBSET Analyzers,
      identity \in {{}, {"container", "blob_name"}} }

BuildReport ==
    /\ call.fn = "payload"
    /\ clock' = clock + 1
    /\ call' = [fn |-> "generate_report", arg |-> call.arg, result |-> generate_report(call.arg, clock')]
    /\ UNCHANGED <<input, runtimeStatus, output, history, rerun, table, crashes, recorded, response, order>>

InitBuild ==
    Fresh /\ \E payload \in Payloads : call = [fn |-> "payload", arg |-> payload, result |-> EmptyDict]

SpecBuild == InitBuild /\ [][BuildReport]_vars

\* store_report called on its own, time after time: with the report of a.pdf,
\* the same under another name, under an empty name, and with the name, the
\* container or the timestamp left out.
MaxClock == 2

WithKey(d, k, v) == [x \in DOMAIN d \cup {k} |-> IF x = k THEN v ELSE d[x]]
WithoutKey(d, k) == [x \in DOMAIN d \ {k} |-> d[x]]

BuiltReport ==
    generate_report([a \in Analyzers \cup {"container", "blob_name"} |->
                        IF a = "container" THEN "pdfs"
                        ELSE IF a = "blob_name" THEN "a.pdf" ELSE Produced(a)], 1)

StorePayloads ==
    LET named == { BuiltReport, WithKey(BuiltReport, "blob_name", "b.pdf"),
                   WithKey(BuiltReport, "blob_name", ""), WithoutKey(BuiltReport, "blob_name") }
        placed == named \cup {WithoutKey(r, "container") : r \in named}
    IN placed \cup {WithoutKey(r, "generated_at_utc") : r \in placed}

StoreCall(payload, up) ==
    /\ clock < MaxClock
    /\ LET r == store_report(payload, clock + 1, up, table) IN
          /\ table' = r.table
          /\ clock' = IF r.readClock THEN clock + 1 ELSE clock
          /\ call' = [fn |-> "store_report", arg |-> payload, result |-> r.result]
    /\ UNCHANGED <<input, runtimeStatus, output, history, rerun, crashes, recorded, response, order>>

NextStore == \E payload \in StorePayloads, up \in BOOLEAN : StoreCall(payload, up)

SpecStore == Init /\ [][NextStore]_vars

(* ------------------------------ the claims ----------------------------- *)

Started(i) == runtimeStatus[i] # "NotStarted"
Task(i, a) == history[i][a]
BlobName(i) == input[i].blob_name

\* C1. Fan-in atomicity: in a run in which an analyzer has failed,
\* generate_report and store_report are never called (so the run writes no
\* entity), and the run does not complete: it is running or Failed.
FanInAtomicity ==
    \A i \in Instances :
        (\E a \in Analyzers : State(i, a) = "failed") =>
            /\ State(i, "generate_report") = "none"
            /\ State(i, "store_report") = "none"
            /\ <<i, "generate_report">> \notin recorded
            /\ <<i, "store_report">> \notin recorded
            /\ runtimeStatus[i] \in {"Running", "Failed"}

\* A run that ended Failed with exactly one analyzer failed and three completed.
FanInAtomicityWitness ==
    \E i \in Instances :
        /\ runtimeStatus[i] = "Failed"
        /\ Cardinality({a \in Analyzers : State(i, a) = "failed"}) = 1
        /\ Cardinality({a \in Analyzers : State(i, a) = "completed"}) = 3

\* C2. Join barrier: generate_report is called only when all four analyzers
\* have completed, and with the recorded result of each of them.
JoinBarrier ==
    \A i \in Instances :
        State(i, "generate_report") # "none" =>
            /\ \A a \in Analyzers : State(i, a) = "completed"
            /\ \A a \in Analyzers :
                  /\ a \in DOMAIN Task(i, "generate_report").arg
                  /\ Task(i, "generate_report").arg[a] = Task(i, a).result.value
                  /\ Task(i, a).result = AnalyzerResult(a, Base(i))

\* generate_report has run for a document, after the join.
JoinBarrierWitness ==
    \E i \in Instances :
        /\ State(i, "generate_report") = "completed"
        /\ BlobName(i) = "a.pdf"

\* C3. Resumability: with the host interrupted during a run, no activity
\* runs again once its result is recorded; store_report is called with, and
\* the run returns, the report recorded for generate_report; and a completed
\* run leaves exactly one entity under its key.
Resumability ==
    /\ ~rerun
    /\ \A i \in Instances :
        /\ State(i, "store_report") # "none" =>
              /\ State(i, "generate_report") = "completed"
              /\ Task(i, "store_report").arg = Task(i, "generate_report").result.value
        /\ (runtimeStatus[i] = "Completed" /\ ~NotStr(input[i], "blob_name")) =>
              /\ output[i] = Task(i, "generate_report").result.value
              /\ output[i].generated_at_utc = Task(i, "store_report").arg.generated_at_utc
              /\ Cardinality(EntitiesAt(table, OrchContainer(i), BlobName(i))) = 1

\* A run completed although the host was interrupted while its
\* generate_report ran: the clock was read more often than reports were recorded.
ResumabilityWitness ==
    \E i \in Instances :
        /\ runtimeStatus[i] = "Completed"
        /\ ~NotStr(input[i], "blob_name")
        /\ crashes > 0
        /\ clock > Cardinality({j \in Instances : State(j, "generate_report") = "completed"})
        /\ output[i].generated_at_utc = clock

\* The entity e holds report r and nothing else: its keys, its timestamp and
\* its serialized report all come from r.
IsEntityOf(e, r) ==
    /\ DOMAIN e = {"PartitionKey", "RowKey", "generated_at_utc", "report"}
    /\ e.PartitionKey = r.container
    /\ e.RowKey = r.blob_name
    /\ e.generated_at_utc = r.generated_at_utc
    /\ JsonLoads(e.report) = r

\* The runs for blob name n whose store_report succeeded.
Storers(n) ==
    {i \in Instances : Started(i) /\ BlobName(i) = n /\ State(i, "store_report") = "completed"}

LastOf(S) == CHOOSE i \in S : \A j \in S : j <= i

\* C4. Idempotence: after runs for one identity, one after the other, there
\* is exactly one entity under the key, and its generated_at_utc is that of the
\* most recent run whose store_report succeeded.
Idempotence ==
    \A n \in {"a.pdf", "b.pdf", "c.pdf"} :
        /\ Cardinality(EntitiesAt(table, "pdfs", n)) <= 1
        /\ Storers(n) # {} =>
              \E e \in table :
                  /\ EntitiesAt(table, "pdfs", n) = {e}
                  /\ e.generated_at_utc = Task(LastOf(Storers(n)), "store_report").arg.generated_at_utc

\* Two runs for the same blob have completed, the second after the first.
IdempotenceWitness ==
    \E i, j \in Instances :
        /\ i < j
        /\ runtimeStatus[i] = "Completed" /\ runtimeStatus[j] = "Completed"
        /\ BlobName(i) = "a.pdf" /\ BlobName(j) = "a.pdf"
        /\ output[i].generated_at_utc < output[j].generated_at_utc
        /\ \E e \in table : e.generated_at_utc = output[j].generated_at_utc

\* C5. Concurrent runs for one identity converge: under every interleaving,
\* each successful store_report leaves exactly one entity under the key, and it
\* is wholly the report that call stored; once the runs have completed, the
\* one entity is wholly the report of one of them.
ConvergeInv ==
    \A i, j \in Instances :
        ( /\ i # j
          /\ runtimeStatus[i] = "Completed" /\ runtimeStatus[j] = "Completed"
          /\ ~NotStr(input[i], "blob_name") /\ BlobName(i) = BlobName(j) ) =>
            \E e \in table :
                /\ EntitiesAt(table, "pdfs", BlobName(i)) = {e}
                /\ \E k \in Storers(BlobName(i)) : IsEntityOf(e, output[k])

StoreStep(i) ==
    /\ State(i, "store_report") = "scheduled"
    /\ history'[i]["store_report"].state = "completed"

ConvergeStep ==
    \A i \in Instances :
        StoreStep(i) =>
            \E e \in table' :
                /\ EntitiesAt(table', "pdfs", BlobName(i)) = {e}
                /\ IsEntityOf(e, Task(i, "store_report").arg)

Convergence == []ConvergeInv /\ [][ConvergeStep]_vars

\* Two runs for the same blob have completed, and the entity is the report of
\* the one that built its report first: its store_report ran last.
ConvergenceWitness ==
    \E i, j \in Instances :
        /\ i # j
        /\ runtimeStatus[i] = "Completed" /\ runtimeStatus[j] = "Completed"
        /\ BlobName(i) = "a.pdf" /\ BlobName(j) = "a.pdf"
        /\ output[i].generated_at_utc < output[j].generated_at_utc
        /\ \E e \in table : IsEntityOf(e, output[i])

MissingName(i) == Started(i) /\ NotStr(input[i], "blob_name")

NoActivity(i) ==
    /\ \A a \in Activities : State(i, a) = "none" /\ Task(i, a).calls = 0
    /\ \A a \in Activities : <<i, a>> \notin recorded

\* C6 as stated. Missing identity: a run started with an empty blob_name
\* fails with MissingIdentity, and calls no activity.
MissingIdentityFails ==
    \A i \in Instances :
        MissingName(i) =>
            /\ NoActivity(i)
            /\ runtimeStatus[i] \in {"Running", "Failed"}
            /\ runtimeStatus[i] = "Failed" => output[i] = [exception |-> "MissingIdentity"]

\* C6, amended. Missing identity: a run started with an empty blob_name
\* does not fail: it ends Completed with the output
\* {"error": "Missing blob_name in orchestrator input."}; it calls no activity,
\* and no entity is written for it.
MissingIdentityReturnsError ==
    \A i \in Instances :
        MissingName(i) =>
            /\ NoActivity(i)
            /\ runtimeStatus[i] \in {"Running", "Completed"}
            /\ runtimeStatus[i] = "Completed" =>
                  output[i] = [error |-> "Missing blob_name in orchestrator input."]
            /\ \A e \in table : e.RowKey # ""

\* A run with an empty blob_name has ended, beside a run that stored a report.
MissingIdentityWitness ==
    \E i, j \in Instances :
        /\ MissingName(i)
        /\ runtimeStatus[i] = "Completed"
        /\ runtimeStatus[j] = "Completed"
        /\ ~NotStr(input[j], "blob_name")
        /\ table # {}

\* A run for a blob that the container does not hold.
NoBlob(i) ==
    /\ Started(i)
    /\ ~NotStr(input[i], "blob_name")
    /\ BlobName(i) \notin DOMAIN BlobStorage

\* C7 as stated. Document not found: no analyzer fails, each returns its
\* empty result, and the run completes with an empty report stored.
NotFoundRecovered ==
    \A i \in Instances :
        NoBlob(i) =>
            /\ \A a \in Analyzers : State(i, a) # "failed"
            /\ runtimeStatus[i] \in {"Running", "Completed"}
            /\ runtimeStatus[i] = "Completed" =>
                  EntitiesAt(table, "pdfs", BlobName(i)) # {}

\* C7, amended. Document not found: each analyzer that runs fails with the
\* fetch's ResourceNotFoundError, none returns a result; generate_report and
\* store_report are not called, the run ends Failed with that error, and
\* nothing is stored under the identity's key.
NotFoundFailsRun ==
    \A i \in Instances :
        NoBlob(i) =>
            /\ \A a \in Analyzers :
                  /\ State(i, a) # "completed"
                  /\ State(i, a) = "failed" => Task(i, a).result = Raise("ResourceNotFoundError")
            /\ State(i, "generate_report") = "none"
            /\ State(i, "store_report") = "none"
            /\ runtimeStatus[i] \in {"Running", "Failed"}
            /\ runtimeStatus[i] = "Failed" => output[i] = [exception |-> "ResourceNotFoundError"]
            /\ EntitiesAt(table, "pdfs", BlobName(i)) = {}

\* The run for a missing blob ended Failed, all four analyzers having failed.
NotFoundWitness ==
    \E i \in Instances :
        /\ NoBlob(i)
        /\ runtimeStatus[i] = "Failed"
        /\ \A a \in Analyzers : State(i, a) = "failed"

\* C8 as stated. Store failure: a failed store_report is retried; a run that
\* ended Failed on store_report had called it at least twice.
StoreRetried ==
    \A i \in Instances :
        (runtimeStatus[i] = "Failed" /\ State(i, "store_report") = "failed") =>
            Task(i, "store_report").calls >= 2

\* C8, amended. Store failure: store_report is called once, and not again
\* when its write fails; the run then ends Failed with the write's error, not
\* Completed and not returning the report; when the write succeeds, the run
\* ends Completed with the report stored.
StoreNotRetried ==
    \A i \in Instances :
        /\ Task(i, "store_report").calls <= 1
        /\ State(i, "store_report") = "failed" =>
              /\ runtimeStatus[i] \in {"Running", "Failed"}
              /\ runtimeStatus[i] = "Failed" =>
                    /\ output[i] = [exception |-> Task(i, "store_report").result.error]
                    /\ output[i] # Task(i, "generate_report").result.value
        /\ (runtimeStatus[i] = "Completed" /\ ~NotStr(input[i], "blob_name")) =>
              /\ State(i, "store_report") = "completed"
              /\ Task(i, "store_report").arg = output[i]
              /\ Cardinality(EntitiesAt(table, "pdfs", BlobName(i))) = 1

\* A run ended Failed because its one store_report write failed.
StoreNotRetriedWitness ==
    \E i \in Instances :
        /\ runtimeStatus[i] = "Failed"
        /\ State(i, "store_report") = "failed"
        /\ Task(i, "store_report").calls = 1
        /\ output[i] = [exception |-> "HttpResponseError"]

\* The newest top items of a container: all of them sorted, then cut.
Newest(tbl, container, top) ==
    LET all == QueryEntities(tbl, container)
    IN SubSeq(SortDesc(Collect(all, Len(all))), 1, Min(top, Len(all)))

\* C9. List returns the newest reports: each list response holds the
\* min(N, count) entities of the container with the greatest
\* generated_at_utc, in descending order, N being the clamped limit.
ListNewest ==
    [][ (response' # response /\ response'.reply.kind = "list") =>
            response'.reply.items =
                Newest(table, response'.request.container,
                       ParseTop(CHOOSE t \in response'.request.top : TRUE)) ]_vars

\* C10. Round-trip: once store_report has succeeded for a report under
\* (C, N), a GET of /reports/C/N that the table answers returns 200 with a
\* body that decodes to the report of the latest such store.
RoundTrip ==
    [][ \A n \in {"a.pdf", "b.pdf", "c.pdf"} :
          ( /\ response' # response
            /\ response'.request.blob_name = n
            /\ response'.request.up
            /\ Storers(n) # {} ) =>
              /\ response'.reply.status_code = 200
              /\ response'.reply.kind = "report"
              /\ JsonLoads(response'.reply.body) =
                    Task(LastOf(Storers(n)), "store_report").arg ]_vars

\* A GET answered 200 with the report that a completed run returned.
RoundTripWitness ==
    /\ response.reply.kind = "report"
    /\ response.reply.status_code = 200
    /\ \E i \in Instances :
          /\ runtimeStatus[i] = "Completed"
          /\ ~NotStr(input[i], "blob_name")
          /\ BlobName(i) = response.request.blob_name
          /\ JsonLoads(response.reply.body) = output[i]
          /\ output[i].analyze_statistics.word_count > 0

\* The status the read path owes a request, given the table it is served from.
StatusOwed(tbl, request) ==
    IF request.container = "" THEN 400
    ELSE IF ~request.up THEN 500
    ELSE IF request.blob_name # "" /\ EntitiesAt(tbl, request.container, request.blob_name) = {}
    THEN 404
    ELSE 200

\* C11. Read-path status mapping: each response is 400 when the container
\* is missing, 500 with an {error, details} body when the table does not
\* answer (lookup and list alike), 404 only when no entity exists under the
\* requested key, and 200 otherwise.
StatusMapping ==
    [][ response' # response =>
            /\ response'.reply.status_code = StatusOwed(table, response'.request)
            /\ response'.reply.status_code = 500 =>
                  /\ response'.reply.kind = "error"
                  /\ DOMAIN response'.reply.body = {"error", "details"} ]_vars

\* C12. Sensitive-data sorting: for every text, each of the four lists of
\* detect_sensitive_data has no duplicate, is in ascending lexicographic
\* order, and holds exactly the distinct matches of its pattern in the text.
SensitiveSorted ==
    call.fn = "detect_sensitive_data" =>
        \A category \in Categories :
            LET found == call.result[category] IN
            /\ \A i, j \in 1 .. Len(found) : i < j => Rank(found[i]) < Rank(found[j])
            /\ \A i, j \in 1 .. Len(found) : i # j => found[i] # found[j]
            /\ {found[i] : i \in 1 .. Len(found)} =
                  {call.arg[k] : k \in {m \in 1 .. Len(call.arg) : IsMatch(category, call.arg[m])}}

\* A text whose e-mail addresses occur out of order, one of them twice.
SensitiveSortedWitness ==
    /\ call.fn = "detect_sensitive_data"
    /\ call.arg = <<"c@d.org", "a@b.com", "c@d.org">>
    /\ call.result["emails"] = <<"a@b.com", "c@d.org">>

\* How far a run has come: 0 not started, 1 started, 2 fan-out dispatched,
\* 3 joined, 4 report built, 5 report stored, 6 completed.
PhaseOf(status, h) ==
    IF status = "NotStarted" THEN 0
    ELSE IF status = "Completed" THEN 6
    ELSE IF h["store_report"].state = "completed" THEN 5
    ELSE IF h["generate_report"].state = "completed" THEN 4
    ELSE IF h["generate_report"].state # "none" THEN 3
    ELSE IF \E a \in Analyzers : h[a].state # "none" THEN 2
    ELSE 1

\* What the steps of a run rest on: each has what the step before it produced.
StepsInOrder(i) ==
    /\ State(i, "generate_report") # "none" => \A a \in Analyzers : State(i, a) = "completed"
    /\ State(i, "store_report") # "none" =>
          /\ State(i, "generate_report") = "completed"
          /\ Task(i, "store_report").arg = Task(i, "generate_report").result.value
    /\ runtimeStatus[i] = "Completed" =>
          /\ State(i, "store_report") = "completed"
          /\ output[i] = Task(i, "store_report").arg

\* A run moves one state on at a time, or fails; a Failed run stays Failed.
OneStateOn(i) ==
    LET before == PhaseOf(runtimeStatus[i], history[i])
        after  == PhaseOf(runtimeStatus'[i], history'[i])
    IN IF runtimeStatus'[i] = "Failed"
       THEN runtimeStatus[i] \in {"Running", "Failed"}
       ELSE runtimeStatus[i] # "Failed" /\ after \in {before, before + 1}

\* C13 as stated. Workflow step order: in every run store_report is called
\* only after generate_report completed and with its report, and the run
\* completes only after store_report answered, returning that report.
StepOrderEveryRun == \A i \in Instances : Started(i) => StepsInOrder(i)

\* C13, amended. Workflow step order, for the runs started with a non-empty
\* blob_name: the states follow one another in order, none skipped, and each
\* step has the result of the one before; a run started with an empty
\* blob_name completes at once, with no step taken.
StepOrderInv ==
    \A i \in Instances :
        /\ (Started(i) /\ ~MissingName(i)) => StepsInOrder(i)
        /\ MissingName(i) => NoActivity(i) /\ runtimeStatus[i] \in {"Running", "Completed"}

StepOrderStep ==
    \A i \in Instances :
        (runtimeStatus'[i] # "NotStarted" /\ ~NotStr(input'[i], "blob_name")) => OneStateOn(i)

StepOrder == []StepOrderInv /\ [][StepOrderStep]_vars

\* A run went through every state and completed with the report it stored.
StepOrderWitness ==
    \E i \in Instances :
        /\ runtimeStatus[i] = "Completed"
        /\ ~NotStr(input[i], "blob_name")
        /\ \A a \in Activities : State(i, a) = "completed" /\ Task(i, a).calls = 1
        /\ output[i] = Task(i, "store_report").arg

\* C14. Fixed join order: whatever the order in which the four analyzers
\* finish, each component field of the report holds the result of the
\* analyzer of that name.
FixedJoinOrder ==
    \A i \in Instances :
        State(i, "generate_report") = "completed" =>
            \A a \in Analyzers :
                /\ Task(i, "generate_report").result.value[a] = Task(i, a).result.value
                /\ Task(i, a).result = AnalyzerResult(a, Base(i))

\* A report was built from analyzers that finished in the reverse of the
\* order of the tasks list.
FixedJoinOrderWitness ==
    \E i \in Instances :
        /\ State(i, "generate_report") = "completed"
        /\ BlobName(i) = "a.pdf"
        /\ order[i] = << "detect_sensitive_data", "analyze_statistics",
                         "extract_metadata", "extract_text" >>

KeysOf(tbl) == {<<e.PartitionKey, e.RowKey>> : e \in tbl}

\* C15. Writes are scoped to one key and nothing is deleted: a step that
\* changes the table is a store_report of some run, and it changes only the
\* entity under that run's (container, blob_name); no step of the workflow or
\* of the reports endpoint removes a key.
WriteScoped ==
    [][ /\ KeysOf(table) \subseteq KeysOf(table')
        /\ table' # table =>
              \E i \in Instances :
                  /\ StoreStep(i)
                  /\ \A e \in (table \ table') \cup (table' \ table) :
                        e.PartitionKey = OrchContainer(i) /\ e.RowKey = BlobName(i) ]_vars

\* Two runs for different blobs have stored their reports, and the reports
\* endpoint has listed both.
WriteScopedWitness ==
    /\ KeysOf(table) = {<<"pdfs", "a.pdf">>, <<"pdfs", "b.pdf">>}
    /\ response.reply.kind = "list"
    /\ Len(response.reply.items) = 2

\* The canonical empty value of each component result.
CanonicalEmpty(a) ==
    CASE a = "extract_text" -> [pages |-> <<>>, full_text |-> <<>>]
      [] a = "extract_metadata" ->
            [ k \in { "title", "author", "subject", "creator", "producer",
                      "creation_date", "mod_date" } |-> "" ]
      [] a = "analyze_statistics" ->
            [ page_count |-> 0, word_count |-> 0, avg_words_per_page |-> <<0, 1>>,
              estimated_reading_time_minutes |-> <<0, 1>> ]
      [] a = "detect_sensitive_data" ->
            [emails |-> <<>>, phones |-> <<>>, urls |-> <<>>, dates |-> <<>>]

\* C16. Report Builder defaults: whichever component results are missing or
\* null in its input, generate_report returns a report with no null component,
\* each missing component being that component's canonical empty value.
BuilderDefaults ==
    call.fn = "generate_report" =>
        \A a \in Analyzers :
            /\ call.result[a] # None
            /\ IF a \notin DOMAIN call.arg \/ call.arg[a] = None
               THEN call.result[a] = CanonicalEmpty(a)
               ELSE call.result[a] = call.arg[a]

\* C17. Store rejects a missing identity: store_report called with a report
\* whose blob_name is absent or empty raises and leaves the table as it was;
\* no entity ever has an empty row key.
StoreRejectsStep ==
    (call' # call /\ call'.fn = "store_report" /\ NotStr(call'.arg, "blob_name")) =>
        /\ ~call'.result.ok
        /\ call'.result.error = "ValueError"
        /\ table' = table

StoreRejects == [](\A e \in table : e.RowKey # "") /\ [][StoreRejectsStep]_vars

\* store_report has raised on a report without blob_name, called on a table
\* that holds an entity.
StoreRejectsWitness ==
    /\ call.fn = "store_report"
    /\ "blob_name" \notin DOMAIN call.arg
    /\ call.result = Raise("ValueError")
    /\ table # {}

\* C18. Stored entity is self-consistent: under every interleaving of the
\* runs, each entity's partition key, row key and generated_at_utc are the
\* container, blob_name and generated_at_utc inside its serialized report.
EntityConsistent ==
    \A e \in table :
        LET r == JsonLoads(e.report) IN
        /\ {"container", "blob_name", "generated_at_utc"} \subseteq DOMAIN r
        /\ e.PartitionKey = r.container
        /\ e.RowKey = r.blob_name
        /\ e.generated_at_utc = r.generated_at_utc

\* Two runs for one blob have both stored; the entity is the second report
\* built, written over the first.
EntityConsistentWitness ==
    \E i, j \in Instances :
        /\ i # j
        /\ State(i, "store_report") = "completed" /\ State(j, "store_report") = "completed"
        /\ BlobName(i) = BlobName(j)
        /\ Task(i, "store_report").arg.generated_at_utc < Task(j, "store_report").arg.generated_at_utc
        /\ \E e \in table : e.generated_at_utc = Task(j, "store_report").arg.generated_at_utc

\* C19. Run termination: under fair scheduling every run started with a
\* non-empty blob_name ends, Completed with its report stored or Failed.
Terminates ==
    \A i \in Instances :
        (runtimeStatus[i] = "Running" /\ ~NotStr(input[i], "blob_name")) ~>
            \/ runtimeStatus[i] = "Completed" /\ State(i, "store_report") = "completed"
            \/ runtimeStatus[i] = "Failed"

\* A run has passed the fan-in barrier, its analyzers finishing in some order,
\* and has ended Failed at the store step.
TerminatesWitness ==
    \E i \in Instances :
        /\ runtimeStatus[i] = "Failed"
        /\ Len(order[i]) = 4
        /\ State(i, "store_report") = "failed"

====
